---- MODULE Spec2Model ----
(***************************************************************************)
(* Model of crew-ai/src/marketing_posts/custom_llm.py: the transform       *)
(* merge_consecutive_assistant_messages and the litellm.completion         *)
(* monkey-patch (patched_completion, install_message_sanitizer).           *)
(*                                                                         *)
(* Python values are tagged records so that values of different Python     *)
(* types can be compared: Str(s), None, Num(n), List(seq), a dict content  *)
(* part [k |-> "dict", type, text], and Absent for a key a dict lacks.     *)
(***************************************************************************)
EXTENDS Integers, Sequences, FiniteSets, TLC

VARIABLES
    messages,              \* the caller's list object (its current elements)
    arg,                   \* the elements of that list when the call was made
    merged,                \* outcome of merge_consecutive_assistant_messages
    again,                 \* outcome of applying the transform to its own result
    sameList,              \* the returned list is the caller's list object
    sharedRecs,            \* output positions whose dict is one of the input's dicts
    pc,                    \* position of the caller
    completion,            \* litellm.completion: "original" or "patched"
    _original_completion,  \* module global captured at import
    installs,              \* calls of install_message_sanitizer so far
    call,                  \* the last call made to litellm.completion
    received,              \* what the original completion function was given
    mergeCount,            \* applications of the transform during the last call
    origCount              \* invocations of the original function during the last call

vars == <<messages, arg, merged, again, sameList, sharedRecs, pc, completion,
          _original_completion, installs, call, received, mergeCount, origCount>>

mergeVars == <<messages, arg, merged, again, sameList, sharedRecs>>
patchVars == <<completion, _original_completion, installs, call, received,
               mergeCount, origCount>>

----------------------------------------------------------------------------
(* Bounds *)
MaxLen == 3          \* longest transcript handed to the transform directly
MaxCallLen == 2      \* longest transcript handed to litellm.completion
MaxInstalls == 3     \* most calls of install_message_sanitizer

----------------------------------------------------------------------------
(* Python values *)
Str(s) == [k |-> "str", v |-> s]
None == [k |-> "none"]
Num(n) == [k |-> "int", v |-> n]
List(s) == [k |-> "list", v |-> s]
Absent == [k |-> "absent"]
TextPart(t) == [k |-> "dict", type |-> "text", text |-> t]
ImagePart == [k |-> "dict", type |-> "image_url", text |-> Absent]

IsStr(x) == x.k = "str"
IsList(x) == x.k = "list"
IsDict(x) == x.k = "dict"

\* dict.get(key): None when the key is absent
Get(x) == IF x = Absent THEN None ELSE x
\* dict.get(key, ""): the default only when the key is absent
GetOrEmpty(x) == IF x = Absent THEN Str("") ELSE x

\* Python truthiness, as used by filter(None, ...)
Truthy(x) ==
    CASE x.k = "str" -> x.v # ""
      [] x.k = "int" -> x.v # 0
      [] x.k = "list" -> x.v # <<>>
      [] x.k = "none" -> FALSE
      [] OTHER -> TRUE

Names == {"n1", "n2"}

\* content of an assistant message: plain strings (one empty), no content key,
\* and lists holding a text part, a non-text part, a text part without text,
\* a plain-string part and a text part whose text is not a string
Contents ==
    { Str("a"), Str("b"), Str(""), Absent,
      List(<<TextPart(Str("x")), ImagePart>>),
      List(<<TextPart(Absent), Str("y")>>),
      List(<<TextPart(Num(42))>>) }

UserContents == { Str("a"), Absent, List(<<TextPart(Str("x")), ImagePart>>) }

Message ==
    [role : {"assistant"}, content : Contents, name : Names]
      \cup [role : {"user"}, content : UserContents, name : Names]

RECURSIVE SeqsUpTo(_, _)
SeqsUpTo(S, n) ==
    IF n = 0 THEN {<<>>}
    ELSE LET shorter == SeqsUpTo(S, n - 1)
         IN  shorter \cup {Append(s, m) : s \in {t \in shorter : Len(t) = n - 1}, m \in S}

----------------------------------------------------------------------------
(* merge_consecutive_assistant_messages *)

IsAssistant(msg) == msg.role = "assistant"

\* lines 33-37 / 46-50: what one element of a list content appends
PartTexts(part) ==
    IF IsDict(part) /\ part.type = "text" THEN <<GetOrEmpty(part.text)>>
    ELSE IF IsStr(part) THEN <<part>>
    ELSE <<>>

RECURSIVE ListTexts(_)
ListTexts(parts) ==
    IF parts = <<>> THEN <<>>
    ELSE PartTexts(Head(parts)) \o ListTexts(Tail(parts))

\* lines 29-37 / 43-50: what one message appends to content_parts
ExtractParts(msg) ==
    LET content == Get(msg.content)
    IN  IF IsStr(content) THEN <<content>>
        ELSE IF IsList(content) THEN ListTexts(content.v)
        ELSE <<>>

\* variant: "if" in place of "while", so a run ends after one more message
RunEndOnce(msgs, j) ==
    IF j <= Len(msgs) /\ IsAssistant(msgs[j]) THEN j + 1 ELSE j

\* lines 40-41, 51: first index at or after j that ends the assistant run
RECURSIVE RunEnd(_, _)
RunEnd(msgs, j) ==
    IF j <= Len(msgs) /\ IsAssistant(msgs[j]) THEN RunEnd(msgs, j + 1) ELSE j

\* lines 42-50: content_parts appended by messages j .. last
RECURSIVE CollectParts(_, _, _)
CollectParts(msgs, j, last) ==
    IF j > last THEN <<>>
    ELSE ExtractParts(msgs[j]) \o CollectParts(msgs, j + 1, last)

\* variant: the parts are joined without filter(None, ...)
FilterNoneKeep(parts) == parts

\* filter(None, content_parts)
RECURSIVE FilterNone(_)
FilterNone(parts) ==
    IF parts = <<>> THEN <<>>
    ELSE IF Truthy(Head(parts)) THEN <<Head(parts)>> \o FilterNone(Tail(parts))
    ELSE FilterNone(Tail(parts))

Sep == "\n\n"

\* variant: the separator is written after every item
RECURSIVE JoinStrsTrailing(_)
JoinStrsTrailing(items) ==
    IF items = <<>> THEN ""
    ELSE Head(items).v \o Sep \o JoinStrsTrailing(Tail(items))

\* "\n\n".join(items): TypeError when an item is not a str
RECURSIVE JoinStrs(_)
JoinStrs(items) ==
    IF items = <<>> THEN ""
    ELSE IF Len(items) = 1 THEN Head(items).v
    ELSE Head(items).v \o Sep \o JoinStrs(Tail(items))

Raised == [status |-> "raised", value |-> <<>>]
Returned(v) == [status |-> "returned", value |-> v]
NotCalled == [status |-> "none", value |-> <<>>]

Join(items) ==
    IF \E n \in 1..Len(items) : ~IsStr(items[n]) THEN Raised
    ELSE Returned(JoinStrs(items))

\* line 54: msg["content"] = joined, on the copy of the first message of the run
SetContent(msg, joined) == [msg EXCEPT !.content = Str(joined)]

\* variant: "i += 1" after a run
NextIndexStay(i, j) == i + 1

\* variant: "i = j + 1" after a run
NextIndexSkip(i, j) == j + 1

\* line 56: the index the scan continues from after a run
NextIndex(i, j) == j

\* lines 21-59: the scan from index i with the output built so far
RECURSIVE MergeFrom(_, _, _)
MergeFrom(msgs, i, out) ==
    IF i > Len(msgs) THEN Returned(out)
    ELSE LET msg == msgs[i]
         IN  IF IsAssistant(msg)
             THEN LET j == RunEnd(msgs, i + 1)
                      content_parts == ExtractParts(msg) \o CollectParts(msgs, i + 1, j - 1)
                      joined == Join(FilterNone(content_parts))
                  IN  IF joined.status = "raised" THEN Raised
                      ELSE MergeFrom(msgs, NextIndex(i, j), Append(out, SetContent(msg, joined.value)))
             ELSE MergeFrom(msgs, i + 1, Append(out, msg))

\* lines 14-61
merge_consecutive_assistant_messages(msgs) ==
    IF msgs = <<>> THEN Returned(msgs) ELSE MergeFrom(msgs, 1, <<>>)

\* lines 16-17: an empty input is returned itself; line 19: otherwise a new list
ReturnsArgument(msgs) == msgs = <<>>

\* line 22: every dict of the output is messages[i].copy(), never the input's dict
CopiedPositions(out) == {}

----------------------------------------------------------------------------
(* litellm.completion and the monkey-patch *)

NoCall == [how |-> "none", list |-> <<>>, installs |-> 0]
Outcome(r, m, o) == [received |-> r, mergeCount |-> m, origCount |-> o]

\* the completion function litellm defines: it is given the caller's arguments
original_completion(c, n) == Outcome(Returned(c.list), n, 1)

\* line 83: "messages" in kwargs
InKwargs(c) == c.how = "keyword"

\* lines 81-85; orig is the value of the global _original_completion
patched_completion(orig, c) ==
    IF InKwargs(c)
    THEN LET sanitized == merge_consecutive_assistant_messages(c.list)
         IN  IF sanitized.status = "raised" THEN Outcome(NotCalled, 1, 0)
             ELSE IF orig = "original"
             THEN original_completion([c EXCEPT !.list = sanitized.value], 1)
             ELSE Outcome(NotCalled, 1, 0)
    ELSE IF orig = "original" THEN original_completion(c, 0)
         ELSE Outcome(NotCalled, 0, 0)

\* a call of whatever litellm.completion is bound to
Dispatch(fn, orig, c) ==
    IF fn = "patched" THEN patched_completion(orig, c) ELSE original_completion(c, 0)

\* state after "import marketing_posts.custom_llm" (line 78 has run); messages is
\* the transcript the framework has built for its requests
PatchInit ==
    /\ messages \in SeqsUpTo(Message, MaxCallLen)
    /\ arg = <<>>
    /\ merged = NotCalled
    /\ again = NotCalled
    /\ sameList = FALSE
    /\ sharedRecs = {}
    /\ pc = "start"
    /\ completion = "original"
    /\ _original_completion = "original"
    /\ installs = 0
    /\ call = NoCall
    /\ received = NotCalled
    /\ mergeCount = 0
    /\ origCount = 0

\* lines 88-90
install_message_sanitizer ==
    /\ installs < MaxInstalls
    /\ completion' = "patched"
    /\ installs' = installs + 1
    /\ UNCHANGED <<_original_completion, call, received, mergeCount, origCount>>
    /\ UNCHANGED <<mergeVars, pc>>

Complete(how, list) ==
    LET c == [how |-> how, list |-> list, installs |-> installs]
        o == Dispatch(completion, _original_completion, c)
    IN  /\ call' = c
        /\ received' = o.received
        /\ mergeCount' = o.mergeCount
        /\ origCount' = o.origCount
        /\ UNCHANGED <<completion, _original_completion, installs>>
        /\ UNCHANGED <<mergeVars, pc>>

\* litellm.completion(model=..., messages=list)
CompleteKeyword == Complete("keyword", messages)

\* litellm.completion(model, list)
CompletePositional == Complete("positional", messages)

\* litellm.completion(model=...) with no message list
CompleteWithoutMessages == Complete("absent", <<>>)

PatchNext ==
    \/ install_message_sanitizer
    \/ CompleteKeyword
    \/ CompletePositional
    \/ CompleteWithoutMessages

PatchSpec == PatchInit /\ [][PatchNext]_vars

----------------------------------------------------------------------------
(* The direct caller of the transform *)

Init ==
    /\ messages \in SeqsUpTo(Message, MaxLen)
    /\ arg = <<>>
    /\ merged = NotCalled
    /\ again = NotCalled
    /\ sameList = FALSE
    /\ sharedRecs = {}
    /\ pc = "start"
    /\ completion = "original"
    /\ _original_completion = "original"
    /\ installs = 0
    /\ call = NoCall
    /\ received = NotCalled
    /\ mergeCount = 0
    /\ origCount = 0

\* result = merge_consecutive_assistant_messages(messages)
CallMerge ==
    /\ pc = "start"
    /\ arg' = messages
    /\ merged' = merge_consecutive_assistant_messages(messages)
    /\ sameList' = (merged'.status = "returned" /\ ReturnsArgument(messages))
    /\ sharedRecs' = CopiedPositions(merged'.value)
    /\ pc' = "called"
    /\ UNCHANGED <<messages, again>>
    /\ UNCHANGED patchVars

\* merge_consecutive_assistant_messages(result)
CallAgain ==
    /\ pc = "called"
    /\ merged.status = "returned"
    /\ again' = merge_consecutive_assistant_messages(merged.value)
    /\ pc' = "again"
    /\ UNCHANGED <<messages, arg, merged, sameList, sharedRecs>>
    /\ UNCHANGED patchVars

\* result.append(m): visible through the caller's list when it is the same object
AppendToResult ==
    /\ pc = "called"
    /\ merged.status = "returned"
    /\ \E m \in {[role |-> "user", content |-> Str("later"), name |-> "n1"]} :
          /\ merged' = Returned(Append(merged.value, m))
          /\ messages' = IF sameList THEN Append(messages, m) ELSE messages
    /\ pc' = "mutated"
    /\ UNCHANGED <<arg, again, sameList, sharedRecs>>
    /\ UNCHANGED patchVars

\* result[1]["name"] = "changed": visible through the input when the dict is shared
SetResultField ==
    /\ pc = "called"
    /\ merged.status = "returned"
    /\ merged.value # <<>>
    /\ merged' = Returned([merged.value EXCEPT ![1].name = "changed"])
    /\ messages' = IF 1 \in sharedRecs
                   THEN [messages EXCEPT ![1].name = "changed"]
                   ELSE messages
    /\ pc' = "mutated"
    /\ UNCHANGED <<arg, again, sameList, sharedRecs>>
    /\ UNCHANGED patchVars

Next == CallMerge \/ CallAgain \/ AppendToResult \/ SetResultField

Spec == Init /\ [][Next]_vars

----------------------------------------------------------------------------
(* Properties of the transform *)

\* the transform has returned and the caller has not touched the result
Done == pc \in {"called", "again"} /\ merged.status = "returned"

NoAdjacentAssistants(s) ==
    \A n \in 1..(Len(s) - 1) : ~(IsAssistant(s[n]) /\ IsAssistant(s[n + 1]))

\* first positions of the maximal assistant runs of s
RunStarts(s) ==
    {n \in 1..Len(s) : IsAssistant(s[n]) /\ (n = 1 \/ ~IsAssistant(s[n - 1]))}

\* last position of the maximal assistant run that starts at a
RunLast(s, a) ==
    CHOOSE e \in a..Len(s) :
        /\ \A n \in a..e : IsAssistant(s[n])
        /\ (e = Len(s) \/ ~IsAssistant(s[e + 1]))

NonAssistants(s) == {n \in 1..Len(s) : ~IsAssistant(s[n])}

\* positions of s that stand for one message of the output
Kept(s) == NonAssistants(s) \cup RunStarts(s)

\* the output position of kept position n
OutPos(s, n) == Cardinality({m \in Kept(s) : m <= n})

RECURSIVE SumExcess(_, _)
SumExcess(s, starts) ==
    IF starts = {} THEN 0
    ELSE LET a == CHOOSE x \in starts : TRUE
         IN  (RunLast(s, a) - a) + SumExcess(s, starts \ {a})

\* the text (possibly empty) one element of a list content stands for
TextOf(part) ==
    IF IsStr(part) THEN part.v
    ELSE IF IsDict(part) /\ part.type = "text" /\ IsStr(part.text) THEN part.text.v
    ELSE ""

\* the non-empty texts of one message, left to right
TextsOf(msg) ==
    IF IsStr(msg.content) THEN SelectSeq(<<msg.content.v>>, LAMBDA t : t # "")
    ELSE IF IsList(msg.content)
    THEN SelectSeq([n \in 1..Len(msg.content.v) |-> TextOf(msg.content.v[n])],
                   LAMBDA t : t # "")
    ELSE <<>>

\* the non-empty texts of messages a..e, left to right
RECURSIVE RunTexts(_, _, _)
RunTexts(s, a, e) ==
    IF e < a THEN <<>> ELSE RunTexts(s, a, e - 1) \o TextsOf(s[e])

\* the first n of the texts joined with a blank line
RECURSIVE Joined(_, _)
Joined(texts, n) ==
    IF n = 0 THEN ""
    ELSE IF n = 1 THEN texts[1]
    ELSE Joined(texts, n - 1) \o "\n\n" \o texts[n]

\* C1: whenever the transform returns, its result has no two adjacent messages
\* that both have role "assistant".
C1_NoAdjacentAssistants == Done => NoAdjacentAssistants(merged.value)

C1_Witness ==
    /\ Done
    /\ Len(arg) = 3
    /\ \A n \in 1..3 : IsAssistant(arg[n])
    /\ Len(merged.value) = 1

\* C2: a transcript without two adjacent assistant messages is returned equal to
\* the input, message by message and field by field, whatever its content shapes.
C2_UnchangedWithoutAdjacent ==
    (Done /\ NoAdjacentAssistants(arg)) => merged.value = arg

\* C4: applying the transform to its own result returns that result again.
C4_Idempotent == pc = "again" => again = Returned(merged.value)

C4_Witness ==
    /\ pc = "again"
    /\ Len(arg) = 3
    /\ RunStarts(arg) = {2}
    /\ IsList(arg[2].content) /\ arg[3].content = Str("")
    /\ merged.value # arg
    /\ again = Returned(merged.value)

\* C5: every maximal assistant run yields exactly one assistant message, so the
\* output length is the input length minus the sum over the runs of (run length
\* - 1); the output is never longer than the input and empty maps to empty.
C5_Length ==
    Done =>
        /\ Len(merged.value) = Len(arg) - SumExcess(arg, RunStarts(arg))
        /\ Cardinality({n \in 1..Len(merged.value) : IsAssistant(merged.value[n])})
              = Cardinality(RunStarts(arg))
        /\ Len(merged.value) <= Len(arg)
        /\ (arg = <<>> => merged.value = <<>>)

C5_Witness ==
    /\ Done
    /\ Len(arg) = 3
    /\ RunStarts(arg) = {1}
    /\ RunLast(arg, 1) = 2
    /\ Len(merged.value) = 2

\* C6: the message emitted for a run has as content the non-empty text parts of
\* the whole run, in left-to-right order, joined with a blank line, and every
\* other attribute equal to that of the first message of the run.
C6_RunContent ==
    Done =>
        \A a \in RunStarts(arg) :
            LET texts == RunTexts(arg, a, RunLast(arg, a))
                out == merged.value[OutPos(arg, a)]
            IN  /\ out.content = Str(Joined(texts, Len(texts)))
                /\ out.role = arg[a].role
                /\ out.name = arg[a].name

C6_Witness ==
    /\ Done
    /\ Len(arg) = 3
    /\ RunStarts(arg) = {1}
    /\ RunLast(arg, 1) = 3
    /\ arg[1].content = List(<<TextPart(Str("x")), ImagePart>>) /\ arg[1].name = "n2"
    /\ arg[2].content = Str("") /\ arg[2].name = "n1"
    /\ arg[3].content = List(<<TextPart(Absent), Str("y")>>)
    /\ merged.value = <<[role |-> "assistant", content |-> Str("x\n\ny"), name |-> "n2"]>>

\* C7: every non-assistant message is in the output with all its fields, the
\* non-assistant messages keep their relative order, and each merged message
\* stands where its run stood.
C7_NonAssistantsKept ==
    Done =>
        /\ Len(merged.value) = Cardinality(Kept(arg))
        /\ \A n \in Kept(arg) :
              IF IsAssistant(arg[n])
              THEN IsAssistant(merged.value[OutPos(arg, n)])
              ELSE merged.value[OutPos(arg, n)] = arg[n]

C7_Witness ==
    /\ Done
    /\ Len(arg) = 3
    /\ RunStarts(arg) = {1}
    /\ RunLast(arg, 1) = 2
    /\ arg[3].content = List(<<TextPart(Str("x")), ImagePart>>)
    /\ merged.value[2] = arg[3]

\* C8: the transform never fails: for every transcript of records, whatever the
\* shape of content, the call returns a transcript.
C8_NeverFails == pc # "start" => merged.status = "returned"

\* C10: the call leaves the input list and its records unchanged and returns a
\* list object distinct from the input list whose records are distinct from the
\* input's, so a later change to the result is not visible through the input.
C10_IndependentResult ==
    (pc # "start" /\ merged.status = "returned") =>
        /\ messages = arg
        /\ ~sameList
        /\ sharedRecs = {}

----------------------------------------------------------------------------
(* Properties of the monkey-patch *)

\* a call that carried a message list was made after the sanitizer was installed
SanitizedCall == call.installs >= 1 /\ call.how \in {"keyword", "positional"}

\* C3: once the sanitizer is installed, for every call that carries a message
\* list, by keyword or by position, the original completion function receives
\* the transform of the caller's list, so never two adjacent assistant messages.
C3_OriginalReceivesSanitized ==
    (SanitizedCall /\ origCount >= 1) =>
        /\ received = merge_consecutive_assistant_messages(call.list)
        /\ NoAdjacentAssistants(received.value)

\* C9: after k >= 1 installations one call to litellm.completion applies the
\* transform exactly once and invokes the original completion function exactly
\* once, and the captured original is never the wrapper.
C9_NoDoubleWrap ==
    (call.how # "none" /\ call.installs >= 1) =>
        /\ mergeCount = 1
        /\ origCount = 1
        /\ _original_completion # "patched"

====
